---- MODULE Spec2Model ----
(***************************************************************************)
(* scripts/verify.py of isometric-city: verify_sprite_change(page) and the *)
(* script entry point that launches a browser, runs it and closes the      *)
(* browser in a finally block.                                             *)
(*                                                                         *)
(* The Playwright objects are collaborators: every call on them either     *)
(* returns or raises, and what the page shows (when an element appears,    *)
(* whether the canvas click placed something) is an input drawn at the     *)
(* call that observes it.  The script is executed MaxRuns times in         *)
(* succession over the same file system.                                   *)
(***************************************************************************)
EXTENDS Integers, Sequences, FiniteSets, TLC

VARIABLES
  pc,          \* position of the process in the script
  runNo,       \* which execution of the script this is (1..MaxRuns)
  calls,       \* collaborator calls made by this process, in order
  exc,         \* the exception currently propagating, "none" if none
  exitStatus,  \* << >> while the process runs, <<code>> once it has ended
  browser,     \* "none" | "open" | "closed": the handle returned by launch
  fs,          \* the file system: path -> content
  seen,        \* what each visibility wait of this run was shown
  placed,      \* visual outcome of the canvas click of this run
  shotRuns     \* history: the executions whose page.screenshot returned

vars == <<pc, runNo, calls, exc, exitStatus, browser, fs, seen, placed, shotRuns>>

----------------------------------------------------------------------------
(* Bounds of the model                                                     *)

MaxRuns == 2

\* Times (ms after a wait begins) at which an element may become visible.
AppearTimes == {100, 10000, 40000}

\* What a visibility wait can be shown: the element never appears, or it
\* becomes visible `at` ms after the wait began.
Elements ==
  {[appears |-> FALSE, at |-> 0]} \cup {[appears |-> TRUE, at |-> t] : t \in AppearTimes}

----------------------------------------------------------------------------
(* Literals of the script                                                  *)

TargetUrl == "http://localhost:3000"
ScreenshotPath == "/home/jules/verification/verification.png"
StartTimeout == 30000
CanvasTimeout == 30000
\* expect(airport_tool).to_be_visible() passes no timeout: Playwright's
\* default expect timeout applies.
DefaultExpectTimeout == 5000
ClickX == 500
ClickY == 300

StartButton == "button[name=Start]"
AirportButton == "button[name=Airport]"
Canvas == "canvas.first"

----------------------------------------------------------------------------
(* Collaborator calls                                                      *)

Call(op, target, nums, ok) ==
  [op |-> op, target |-> target, nums |-> nums, ok |-> ok]

\* expect(locator).to_be_visible(timeout=t): satisfied when the element
\* becomes visible within t ms of the wait beginning.
ToBeVisible(e, timeout) == e.appears /\ e.at <= timeout

\* What page.screenshot captures: the page as the last UI action left it.
Capture ==
  [run |-> runNo, after |-> calls[Len(calls)], placed |-> placed]

\* A file an earlier execution of the script may have left at the path.
StaleShot ==
  [run |-> 0, after |-> Call("click", Canvas, <<ClickX, ClickY>>, TRUE), placed |-> FALSE]

EmptyFs == [p \in {} |-> StaleShot]

\* Variant: a path already taken is kept and the image goes to a new name.
WriteFileVersioned(files, path, content) ==
  LET q == IF path \in DOMAIN files THEN "/home/jules/verification/verification-1.png" ELSE path
  IN  [p \in DOMAIN files \cup {q} |-> IF p = q THEN content ELSE files[p]]

\* Variant: an existing file is left as it is.
WriteFileKeepExisting(files, path, content) ==
  [p \in DOMAIN files \cup {path} |->
     IF p \in DOMAIN files THEN files[p] ELSE content]

\* page.screenshot(path=...) persisting the image: creates or overwrites.
WriteFile(files, path, content) ==
  [p \in DOMAIN files \cup {path} |-> IF p = path THEN content ELSE files[p]]

\* An exception raised inside verify_sprite_change leaves the function and
\* enters the caller's finally block.
RunRaises(kind) ==
  /\ exc' = kind
  /\ pc' = "finally"

Log(c) == calls' = Append(calls, c)

Observe(what, e) ==
  seen' = [w \in DOMAIN seen \cup {what} |-> IF w = what THEN e ELSE seen[w]]

NothingSeen == [w \in {} |-> [appears |-> FALSE, at |-> 0]]

----------------------------------------------------------------------------
(* The script entry point, lines 30-37, up to the call of the scenario     *)

Init ==
  /\ pc = "with_enter"
  /\ runNo = 1
  /\ calls = << >>
  /\ exc = "none"
  /\ exitStatus = << >>
  /\ browser = "none"
  /\ fs \in {EmptyFs, WriteFile(EmptyFs, ScreenshotPath, StaleShot)}
  /\ seen = NothingSeen
  /\ placed = FALSE
  /\ shotRuns = {}

\* with sync_playwright() as p:
WithEnter ==
  /\ pc = "with_enter"
  /\ \E ok \in BOOLEAN :
       /\ Log(Call("sync_playwright", "", << >>, ok))
       /\ IF ok
            THEN pc' = "launch" /\ UNCHANGED <<exc, exitStatus>>
            ELSE pc' = "exited" /\ exc' = "DriverError" /\ exitStatus' = <<1>>
  /\ UNCHANGED <<runNo, browser, fs, seen, placed, shotRuns>>

\* browser = p.chromium.launch(headless=True)
Launch ==
  /\ pc = "launch"
  /\ \E ok \in BOOLEAN :
       /\ Log(Call("launch", "chromium", << >>, ok))
       /\ IF ok
            THEN pc' = "new_page" /\ browser' = "open" /\ UNCHANGED exc
            ELSE pc' = "with_exit" /\ exc' = "LaunchError" /\ UNCHANGED browser
  /\ UNCHANGED <<runNo, exitStatus, fs, seen, placed, shotRuns>>

\* page = browser.new_page()   (before the try block)
NewPage ==
  /\ pc = "new_page"
  /\ \E ok \in BOOLEAN :
       /\ Log(Call("new_page", "browser", << >>, ok))
       /\ IF ok
            THEN pc' = "goto" /\ UNCHANGED exc
            ELSE pc' = "with_exit" /\ exc' = "NewPageError"
  /\ UNCHANGED <<runNo, exitStatus, browser, fs, seen, placed, shotRuns>>

----------------------------------------------------------------------------
(* verify_sprite_change(page), lines 3-28                                  *)

\* page.goto("http://localhost:3000")
Goto ==
  /\ pc = "goto"
  /\ \E ok \in BOOLEAN :
       /\ Log(Call("goto", TargetUrl, << >>, ok))
       /\ IF ok
            THEN pc' = "start_wait" /\ UNCHANGED exc
            ELSE RunRaises("NavigationFailure")
  /\ UNCHANGED <<runNo, exitStatus, browser, fs, seen, placed, shotRuns>>

\* Variant: the result of the visibility assertion is not acted on.
StartWaitIgnoresResult ==
  /\ pc = "start_wait"
  /\ \E e \in Elements :
       /\ Observe("start", e)
       /\ Log(Call("to_be_visible", StartButton, <<StartTimeout>>, ToBeVisible(e, StartTimeout)))
       /\ pc' = "start_click" /\ UNCHANGED exc
  /\ UNCHANGED <<runNo, exitStatus, browser, fs, placed, shotRuns>>

\* start_button = page.get_by_role("button", name="Start")
\* expect(start_button).to_be_visible(timeout=30000)
StartWait ==
  /\ pc = "start_wait"
  /\ \E e \in Elements :
       /\ Observe("start", e)
       /\ Log(Call("to_be_visible", StartButton, <<StartTimeout>>, ToBeVisible(e, StartTimeout)))
       /\ IF ToBeVisible(e, StartTimeout)
            THEN pc' = "start_click" /\ UNCHANGED exc
            ELSE RunRaises("ExpectTimeout")
  /\ UNCHANGED <<runNo, exitStatus, browser, fs, placed, shotRuns>>

\* Variant: the canvas wait is left out.
StartClickSkipsCanvasWait ==
  /\ pc = "start_click"
  /\ \E ok \in BOOLEAN :
       /\ Log(Call("click", StartButton, << >>, ok))
       /\ IF ok
            THEN pc' = "airport_wait" /\ UNCHANGED exc
            ELSE RunRaises("ClickError")
  /\ UNCHANGED <<runNo, exitStatus, browser, fs, seen, placed, shotRuns>>

\* start_button.click()
StartClick ==
  /\ pc = "start_click"
  /\ \E ok \in BOOLEAN :
       /\ Log(Call("click", StartButton, << >>, ok))
       /\ IF ok
            THEN pc' = "canvas_wait" /\ UNCHANGED exc
            ELSE RunRaises("ClickError")
  /\ UNCHANGED <<runNo, exitStatus, browser, fs, seen, placed, shotRuns>>

\* Variant: the result of the visibility assertion is not acted on.
CanvasWaitIgnoresResult ==
  /\ pc = "canvas_wait"
  /\ \E e \in Elements :
       /\ Observe("canvas", e)
       /\ Log(Call("to_be_visible", Canvas, <<CanvasTimeout>>, ToBeVisible(e, CanvasTimeout)))
       /\ pc' = "airport_wait" /\ UNCHANGED exc
  /\ UNCHANGED <<runNo, exitStatus, browser, fs, placed, shotRuns>>

\* canvas = page.locator("canvas").first
\* expect(canvas).to_be_visible(timeout=30000)
CanvasWait ==
  /\ pc = "canvas_wait"
  /\ \E e \in Elements :
       /\ Observe("canvas", e)
       /\ Log(Call("to_be_visible", Canvas, <<CanvasTimeout>>, ToBeVisible(e, CanvasTimeout)))
       /\ IF ToBeVisible(e, CanvasTimeout)
            THEN pc' = "airport_wait" /\ UNCHANGED exc
            ELSE RunRaises("ExpectTimeout")
  /\ UNCHANGED <<runNo, exitStatus, browser, fs, placed, shotRuns>>

\* Variant: the assertion is made without waiting at all.
AirportWaitNoTimeout ==
  /\ pc = "airport_wait"
  /\ \E e \in Elements :
       /\ Observe("airport", e)
       /\ Log(Call("to_be_visible", AirportButton, << >>, ToBeVisible(e, 0)))
       /\ IF ToBeVisible(e, 0)
            THEN pc' = "airport_click" /\ UNCHANGED exc
            ELSE RunRaises("ExpectTimeout")
  /\ UNCHANGED <<runNo, exitStatus, browser, fs, placed, shotRuns>>

\* airport_tool = page.get_by_role("button", name="Airport")
\* expect(airport_tool).to_be_visible()
AirportWait ==
  /\ pc = "airport_wait"
  /\ \E e \in Elements :
       /\ Observe("airport", e)
       /\ Log(Call("to_be_visible", AirportButton, << >>, ToBeVisible(e, DefaultExpectTimeout)))
       /\ IF ToBeVisible(e, DefaultExpectTimeout)
            THEN pc' = "airport_click" /\ UNCHANGED exc
            ELSE RunRaises("ExpectTimeout")
  /\ UNCHANGED <<runNo, exitStatus, browser, fs, placed, shotRuns>>

\* airport_tool.click()
AirportClick ==
  /\ pc = "airport_click"
  /\ \E ok \in BOOLEAN :
       /\ Log(Call("click", AirportButton, << >>, ok))
       /\ IF ok
            THEN pc' = "canvas_click" /\ UNCHANGED exc
            ELSE RunRaises("ClickError")
  /\ UNCHANGED <<runNo, exitStatus, browser, fs, seen, placed, shotRuns>>

\* Variant: the script checks that the click placed the airport.
CanvasClickAssertsPlaced ==
  /\ pc = "canvas_click"
  /\ \E ok \in BOOLEAN, outcome \in BOOLEAN :
       /\ Log(Call("click", Canvas, <<ClickX, ClickY>>, ok))
       /\ placed' = (ok /\ outcome)
       /\ IF ok /\ outcome
            THEN pc' = "screenshot" /\ UNCHANGED exc
            ELSE RunRaises(IF ok THEN "AssertionError" ELSE "ClickError")
  /\ UNCHANGED <<runNo, exitStatus, browser, fs, seen, shotRuns>>

\* canvas.click(position={"x": 500, "y": 300})
\* `outcome` is what the click did to the map; the script does not look at it.
CanvasClick ==
  /\ pc = "canvas_click"
  /\ \E ok \in BOOLEAN, outcome \in BOOLEAN :
       /\ Log(Call("click", Canvas, <<ClickX, ClickY>>, ok))
       /\ placed' = (ok /\ outcome)
       /\ IF ok
            THEN pc' = "screenshot" /\ UNCHANGED exc
            ELSE RunRaises("ClickError")
  /\ UNCHANGED <<runNo, exitStatus, browser, fs, seen, shotRuns>>

\* Variant: the scenario closes the browser itself once the image is taken.
ScreenshotThenClose ==
  /\ pc = "screenshot"
  /\ \E ok \in BOOLEAN :
       /\ calls' = calls \o << Call("screenshot", ScreenshotPath, << >>, ok),
                               Call("close", "browser", << >>, TRUE) >>
       /\ browser' = "closed"
       /\ IF ok
            THEN /\ fs' = WriteFile(fs, ScreenshotPath, Capture)
                 /\ shotRuns' = shotRuns \cup {runNo}
                 /\ pc' = "finally" /\ UNCHANGED exc
            ELSE /\ UNCHANGED <<fs, shotRuns>>
                 /\ RunRaises("ScreenshotError")
  /\ UNCHANGED <<runNo, exitStatus, seen, placed>>

\* page.screenshot(path="/home/jules/verification/verification.png")
\* and the return of verify_sprite_change into the finally block.
Screenshot ==
  /\ pc = "screenshot"
  /\ \E ok \in BOOLEAN :
       /\ Log(Call("screenshot", ScreenshotPath, << >>, ok))
       /\ IF ok
            THEN /\ fs' = WriteFile(fs, ScreenshotPath, Capture)
                 /\ shotRuns' = shotRuns \cup {runNo}
                 /\ pc' = "finally" /\ UNCHANGED exc
            ELSE /\ UNCHANGED <<fs, shotRuns>>
                 /\ RunRaises("ScreenshotError")
  /\ UNCHANGED <<runNo, exitStatus, browser, seen, placed>>

----------------------------------------------------------------------------
(* The script entry point, lines 34-37, after the scenario                 *)

\* Variant: the cleanup block ends the exception (a return in finally).
FinallySwallows ==
  /\ pc = "finally"
  /\ \E ok \in BOOLEAN :
       /\ Log(Call("close", "browser", << >>, ok))
       /\ browser' = IF ok THEN "closed" ELSE browser
       /\ exc' = "none"
  /\ pc' = "with_exit"
  /\ UNCHANGED <<runNo, exitStatus, fs, seen, placed, shotRuns>>

\* finally: browser.close()
\* An exception raised by close() replaces the one that was propagating.
Finally ==
  /\ pc = "finally"
  /\ \E ok \in BOOLEAN :
       /\ Log(Call("close", "browser", << >>, ok))
       /\ browser' = IF ok THEN "closed" ELSE browser
       /\ exc' = IF ok THEN exc ELSE "CloseError"
  /\ pc' = "with_exit"
  /\ UNCHANGED <<runNo, exitStatus, fs, seen, placed, shotRuns>>

\* Leaving the with block (sync_playwright().__exit__), then the end of the
\* process: exit code 0 when nothing propagates, 1 for an uncaught exception.
WithExit ==
  /\ pc = "with_exit"
  /\ \E ok \in BOOLEAN :
       /\ Log(Call("stop", "playwright", << >>, ok))
       /\ exc' = IF ok THEN exc ELSE "StopError"
       /\ exitStatus' = << IF ok /\ exc = "none" THEN 0 ELSE 1 >>
  /\ pc' = "exited"
  /\ UNCHANGED <<runNo, browser, fs, seen, placed, shotRuns>>

\* The script is executed again: a new process over the same file system.
Rerun ==
  /\ pc = "exited"
  /\ runNo < MaxRuns
  /\ runNo' = runNo + 1
  /\ pc' = "with_enter"
  /\ calls' = << >>
  /\ exc' = "none"
  /\ exitStatus' = << >>
  /\ browser' = "none"
  /\ seen' = NothingSeen
  /\ placed' = FALSE
  /\ UNCHANGED <<fs, shotRuns>>

Next ==
  \/ WithEnter
  \/ Launch
  \/ NewPage
  \/ Goto
  \/ StartWait
  \/ StartClick
  \/ CanvasWait
  \/ AirportWait
  \/ AirportClick
  \/ CanvasClick
  \/ Screenshot
  \/ Finally
  \/ WithExit
  \/ Rerun

Spec == Init /\ [][Next]_vars

----------------------------------------------------------------------------
(* Vocabulary of the properties                                            *)

PageOps == {"goto", "to_be_visible", "click", "screenshot"}
IsPageCall(c) == c.op \in PageOps

\* The calls verify_sprite_change has made on the page so far.
RunCalls == SelectSeq(calls, IsPageCall)
LastRunCall == RunCalls[Len(RunCalls)]

EndedPcs == {"finally", "with_exit", "exited"}
RunPcs == {"goto", "start_wait", "start_click", "canvas_wait", "airport_wait",
           "airport_click", "canvas_click", "screenshot"}

\* verify_sprite_change was entered and has returned or raised.
RunEnded == pc \in EndedPcs /\ Len(RunCalls) > 0

Step(c) == [op |-> c.op, target |-> c.target, nums |-> c.nums]

\* The sequence the script is said to perform.
RunOrder ==
  << [op |-> "goto",          target |-> "http://localhost:3000", nums |-> << >>],
     [op |-> "to_be_visible", target |-> StartButton,             nums |-> <<30000>>],
     [op |-> "click",         target |-> StartButton,             nums |-> << >>],
     [op |-> "to_be_visible", target |-> Canvas,                  nums |-> <<30000>>],
     [op |-> "to_be_visible", target |-> AirportButton,           nums |-> << >>],
     [op |-> "click",         target |-> AirportButton,           nums |-> << >>],
     [op |-> "click",         target |-> Canvas,                  nums |-> <<500, 300>>],
     [op |-> "screenshot",    target |-> "/home/jules/verification/verification.png",
                              nums |-> << >>] >>

\* A screenshot was written at the fixed path by this execution.
WrittenThisRun ==
  /\ ScreenshotPath \in DOMAIN fs
  /\ fs[ScreenshotPath].run = runNo

Made(op, target) == \E i \in 1..Len(calls) : calls[i].op = op /\ calls[i].target = target
Returned(op, target) ==
  \E i \in 1..Len(calls) : calls[i].op = op /\ calls[i].target = target /\ calls[i].ok

Within(what, ms) == what \in DOMAIN seen /\ seen[what].appears /\ seen[what].at <= ms
NotWithin(what, ms) == what \in DOMAIN seen /\ ~(seen[what].appears /\ seen[what].at <= ms)

----------------------------------------------------------------------------
(* C1: the page calls of a run are a prefix of the fixed sequence goto,    *)
(* Start wait, Start click, canvas wait, Airport wait, Airport click,      *)
(* canvas click at (500,300), screenshot; every call but the last has      *)
(* succeeded; and the run ends either with all eight done and the          *)
(* screenshot written, or with an exception propagating.                   *)
StepsInOrder ==
  /\ Len(RunCalls) <= Len(RunOrder)
  /\ \A i \in 1..Len(RunCalls) :
       /\ Step(RunCalls[i]) = RunOrder[i]
       /\ (i < Len(RunCalls) => RunCalls[i].ok)
  /\ (pc \in RunPcs => \A i \in 1..Len(RunCalls) : RunCalls[i].ok)
  /\ (pc = "finally" =>
        \/ /\ exc = "none"
           /\ Len(RunCalls) = Len(RunOrder)
           /\ LastRunCall.ok
           /\ WrittenThisRun
        \/ /\ exc # "none"
           /\ ~LastRunCall.ok
           /\ ~WrittenThisRun)

StepsInOrderWitness ==
  /\ pc = "finally"
  /\ exc = "none"
  /\ Len(RunCalls) = 8

(* C2: when the Start button is not visible within 30,000 ms of the wait   *)
(* beginning, the run has ended with a timeout error of the assertion,     *)
(* Start was never clicked and no screenshot was taken or written.         *)
StartTimeoutAborts ==
  NotWithin("start", 30000) =>
    /\ pc \in EndedPcs
    /\ (pc = "finally" => exc = "ExpectTimeout")
    /\ ~Made("click", StartButton)
    /\ ~Made("screenshot", ScreenshotPath)
    /\ ~WrittenThisRun
    /\ \A p \in DOMAIN fs : fs[p].run < runNo

StartTimeoutWitness ==
  /\ pc = "exited"
  /\ "start" \in DOMAIN seen
  /\ seen["start"].appears
  /\ seen["start"].at > 30000

(* C3: a failed page call is the last page call of its run: nothing is     *)
(* retried, no later step is performed, and the exception leaves the run.  *)
(* With the canvas not visible within 30,000 ms, the Airport button and    *)
(* the canvas are never clicked and no screenshot is taken.                *)
FirstFailureIsLastCall ==
  /\ \A i \in 1..Len(RunCalls) :
       ~RunCalls[i].ok =>
          /\ i = Len(RunCalls)
          /\ pc \in EndedPcs
          /\ (pc = "finally" => exc # "none")
          /\ ~WrittenThisRun
  /\ (NotWithin("canvas", 30000) =>
        /\ pc \in EndedPcs
        /\ ~Made("click", AirportButton)
        /\ ~Made("click", Canvas)
        /\ ~Made("screenshot", ScreenshotPath)
        /\ ~WrittenThisRun)

FirstFailureWitness ==
  /\ pc = "exited"
  /\ NotWithin("canvas", 30000)
  /\ Returned("click", StartButton)

(* C4: once the browser was launched, the process does not end without     *)
(* browser.close() having been called.                                     *)
ClosedOnEveryExit ==
  (pc = "exited" /\ Returned("launch", "chromium")) => Made("close", "browser")

(* C5 as stated: reachable application and Start visible within 30 s are   *)
(* enough for the run to return normally with the screenshot in place.     *)
StartVisibleSuffices ==
  (pc = "finally" /\ Returned("goto", TargetUrl) /\ Within("start", 30000)) =>
    (exc = "none" /\ WrittenThisRun)

(* C5 as amended: reachable application, Start visible within 30 s, the    *)
(* canvas visible within 30 s, the Airport button visible within the       *)
(* default 5 s, and no click or screenshot call raising: the run returns   *)
(* normally and the screenshot file exists.                                *)
AllVisibleSuffices ==
  ( /\ pc = "finally"
    /\ Returned("goto", TargetUrl)
    /\ Within("start", 30000)
    /\ Within("canvas", 30000)
    /\ Within("airport", 5000)
    /\ \A i \in 1..Len(RunCalls) :
         RunCalls[i].op \in {"click", "screenshot"} => RunCalls[i].ok )
  => /\ exc = "none"
     /\ ScreenshotPath \in DOMAIN fs
     /\ WrittenThisRun
     /\ Returned("screenshot", ScreenshotPath)

AllVisibleWitness ==
  /\ pc = "finally"
  /\ Within("start", 30000)
  /\ Within("canvas", 30000)
  /\ Within("airport", 5000)
  /\ Returned("screenshot", ScreenshotPath)
  /\ seen["canvas"].at > 5000

(* C6: an ended run has exactly one of two outcomes, screenshot written    *)
(* by this run and no exception, or exception and no screenshot written    *)
(* by this run; a screenshot that is written is taken right after the      *)
(* canvas click at (500,300) and shows the page as that click left it.     *)
BinaryOutcome ==
  /\ (pc = "finally" => ((exc = "none") <=> WrittenThisRun))
  /\ (RunEnded => (WrittenThisRun <=> (LastRunCall.op = "screenshot" /\ LastRunCall.ok)))
  /\ (pc \in RunPcs => ~WrittenThisRun)
  /\ (WrittenThisRun =>
        /\ fs[ScreenshotPath].after = Call("click", Canvas, <<500, 300>>, TRUE)
        /\ fs[ScreenshotPath].placed = placed
        /\ Len(RunCalls) = 8
        /\ Step(RunCalls[7]) = RunOrder[7])

BinaryOutcomeWitness ==
  /\ pc = "finally"
  /\ WrittenThisRun
  /\ fs[ScreenshotPath].placed

(* C7 as stated: exit code 0 whenever verify_sprite_change returned        *)
(* normally, non-zero whenever it raised.                                  *)
ExitCodeFollowsRun ==
  (pc = "exited" /\ Len(RunCalls) > 0) =>
    /\ ((LastRunCall.op = "screenshot" /\ LastRunCall.ok) => exitStatus = <<0>>)
    /\ (~LastRunCall.ok => exitStatus # <<0>> /\ Made("close", "browser"))

(* C7 as amended: exit code 0 when verify_sprite_change returned normally  *)
(* and neither browser.close() nor leaving the with block raised; non-zero *)
(* whenever verify_sprite_change raised, the exception reaching the        *)
(* process boundary after the finally block has called browser.close().    *)
ExitCodeFollowsRunAndCleanup ==
  /\ (pc = "exited" /\ Len(RunCalls) > 0) =>
       /\ ( ( /\ LastRunCall.op = "screenshot" /\ LastRunCall.ok
              /\ Returned("close", "browser")
              /\ Returned("stop", "playwright") ) => exitStatus = <<0>> )
       /\ (~LastRunCall.ok =>
             /\ exitStatus # <<0>>
             /\ exitStatus # << >>
             /\ exc # "none"
             /\ Made("close", "browser"))
  /\ (pc = "with_exit" /\ Len(RunCalls) > 0 /\ ~LastRunCall.ok) =>
       (exc # "none" /\ Made("close", "browser"))

ExitCodeWitness ==
  /\ pc = "exited"
  /\ Len(RunCalls) > 0
  /\ ~LastRunCall.ok
  /\ LastRunCall.op = "to_be_visible"
  /\ Returned("close", "browser")
  /\ exitStatus = <<1>>

(* C8: after executions that took the screenshot, the file system holds    *)
(* exactly one file, at the fixed path, and its content is that of the     *)
(* latest such execution: the second run overwrites the first and the set  *)
(* of files is the same after two runs as after one.                       *)
SecondRunOverwrites ==
  shotRuns # {} =>
    /\ DOMAIN fs = {"/home/jules/verification/verification.png"}
    /\ \A r \in shotRuns : fs[ScreenshotPath].run >= r
    /\ fs[ScreenshotPath].run \in shotRuns

SecondRunOverwritesWitness ==
  /\ pc = "exited"
  /\ {1, 2} \subseteq shotRuns
  /\ fs[ScreenshotPath].run = 2

(* C9 as stated: once the Airport button was clicked, the canvas click     *)
(* does not raise.                                                         *)
CanvasClickNeverRaises ==
  (Returned("goto", TargetUrl) /\ Returned("click", AirportButton)) =>
    \A i \in 1..Len(calls) :
      (calls[i].op = "click" /\ calls[i].target = Canvas) => calls[i].ok

(* C9 as amended: the script raises nothing of its own on the canvas       *)
(* click: when the click call returns, whatever it did to the map, no      *)
(* exception is raised and the next step is the screenshot; an exception   *)
(* raised by the click call itself propagates.                             *)
CanvasClickOutcomeIgnored ==
  \A i \in 1..Len(calls) :
    (calls[i].op = "click" /\ calls[i].target = Canvas) =>
       IF calls[i].ok
         THEN \/ (i = Len(calls) /\ pc = "screenshot" /\ exc = "none")
              \/ (i < Len(calls) /\ calls[i + 1].op = "screenshot")
         ELSE /\ ~Made("screenshot", ScreenshotPath)
              /\ (pc = "finally" => exc = "ClickError")

CanvasClickOutcomeWitness ==
  /\ pc = "screenshot"
  /\ ~placed
  /\ Returned("click", Canvas)

(* C10: the browser is open from the entry of verify_sprite_change to its  *)
(* return or raise; browser.close() is called only after that, by the      *)
(* entry point, at most once per process, and no page call follows it.     *)
RunLeavesBrowserOpen ==
  /\ (pc \in RunPcs \cup {"finally"} => (browser = "open" /\ ~Made("close", "browser")))
  /\ Cardinality({i \in 1..Len(calls) : calls[i].op = "close"}) <= 1
  /\ (Made("close", "browser") => pc \in {"with_exit", "exited"})
  /\ \A i \in 1..Len(calls) : \A j \in 1..Len(calls) :
       (calls[i].op = "close" /\ i < j) => ~IsPageCall(calls[j])
  /\ (browser = "closed" => Returned("close", "browser"))

RunLeavesBrowserOpenWitness ==
  /\ pc = "with_exit"
  /\ browser = "closed"
  /\ Len(RunCalls) > 0
  /\ ~LastRunCall.ok

====
